---- MODULE Spec2Model ----
(***************************************************************************)
(* Model of django_cotton/_fastcompiler/src/lib.rs: the compiler that      *)
(* rewrites <c-...> component tags of a template into {% c ... %}          *)
(* directives.                                                             *)
(*                                                                         *)
(* Text is a TLA+ string; an offset is a 0-based byte offset as in the     *)
(* Rust source (the model's alphabet is ASCII, so a char is one byte and   *)
(* ch.len_utf8() = 1).  Slice(s, a, b) is Rust's &s[a..b].                 *)
(* Option<usize> is an offset or -1; Option<String> is <<>> or <<s>>.      *)
(***************************************************************************)
EXTENDS Integers, Sequences, FiniteSets, TLC

VARIABLES
    html,           \* the &str handed to the entry point
    pc,             \* position inside process_internal
    processed_html, \* the working text (lib.rs:57-59)
    ignorables,     \* Vec<Ignorable> (lib.rs:57)
    vars_content,   \* Option<String> (lib.rs:58)
    replacements,   \* Vec<(String, String)> (lib.rs:59)
    dependencies,   \* Vec<String> (lib.rs:59)
    compiled,       \* the text being compiled (lib.rs:61)
    error,          \* the PyErr raised by `?`, <<>> while there is none
    result          \* what the entry point returned to the caller

vars == <<html, pc, processed_html, ignorables, vars_content, replacements,
          dependencies, compiled, error, result>>

-----------------------------------------------------------------------------
(* str primitives of the Rust standard library used by lib.rs *)

Slice(s, a, b) == SubSeq(s, a + 1, b)

CharAt(s, i) == SubSeq(s, i + 1, i + 1)

\* s[i..].starts_with(p)
StartsWithAt(s, i, p) ==
    /\ i + Len(p) <= Len(s)
    /\ SubSeq(s, i + 1, i + Len(p)) = p

\* the first of a set of offsets, as a loop or a search that runs upwards
\* finds it; -1 is None
Least(offsets) ==
    IF offsets = {} THEN -1
    ELSE CHOOSE j \in offsets : \A k \in offsets : j <= k

\* s[from..].find(needle), as an absolute offset (the least offset >= from
\* at which needle occurs); -1 is None
FindFrom(s, from, needle) ==
    Least({j \in from..(Len(s) - Len(needle)) : StartsWithAt(s, j, needle)})

Contains(s, needle) == FindFrom(s, 0, needle) # -1

\* str::replace: every non-overlapping match, left to right (pat is never
\* empty here: a placeholder or a tag's source slice)
RECURSIVE str_replace(_, _, _)
str_replace(s, pat, to) ==
    LET p == FindFrom(s, 0, pat)
    IN  IF p = -1 THEN s
        ELSE Slice(s, 0, p) \o to
                 \o str_replace(Slice(s, p + Len(pat), Len(s)), pat, to)

\* u8::is_ascii_whitespace: space, \t, \n, form feed, \r
AsciiWhitespace == {" ", "\t", "\n", "\f", "\r"}

IsAsciiWhitespace(ch) == ch \in AsciiWhitespace

\* u8::is_ascii_alphanumeric
AsciiAlphanumeric ==
    {"a", "b", "c", "d", "e", "f", "g", "h", "i", "j", "k", "l", "m",
     "n", "o", "p", "q", "r", "s", "t", "u", "v", "w", "x", "y", "z",
     "A", "B", "C", "D", "E", "F", "G", "H", "I", "J", "K", "L", "M",
     "N", "O", "P", "Q", "R", "S", "T", "U", "V", "W", "X", "Y", "Z",
     "0", "1", "2", "3", "4", "5", "6", "7", "8", "9"}

\* where a loop `while index < end { if <break at index> { break; }
\* index += 1; }` leaves index: at the first offset it breaks at, else at
\* `end` (or where it started, when that is already past `end`)
LoopExit(index, break_at, end) ==
    IF break_at # -1 THEN break_at
    ELSE IF index < end THEN end ELSE index

\* `while index < s.len() { if <s[index] is in stop> { break; } index += 1; }`:
\* the least offset >= index whose byte is in `stop`, s.len() if there is none
ScanUntil(s, index, stop) ==
    LoopExit(index,
             Least({j \in index..(Len(s) - 1) : CharAt(s, j) \in stop}),
             Len(s))

\* the same loop, breaking at the first byte that is not in `keep`
ScanWhile(s, index, keep) ==
    LoopExit(index,
             Least({j \in index..(Len(s) - 1) : CharAt(s, j) \notin keep}),
             Len(s))

\* str::trim_start / str::trim (char::is_whitespace; on the model's alphabet
\* the same characters as is_ascii_whitespace)
RECURSIVE trim_start(_)
trim_start(s) ==
    IF Len(s) > 0 /\ IsAsciiWhitespace(CharAt(s, 0))
    THEN trim_start(Slice(s, 1, Len(s)))
    ELSE s

RECURSIVE trim_end(_)
trim_end(s) ==
    IF Len(s) > 0 /\ IsAsciiWhitespace(CharAt(s, Len(s) - 1))
    THEN trim_end(Slice(s, 0, Len(s) - 1))
    ELSE s

trim(s) == trim_end(trim_start(s))

\* the Display of a usize, as format!("{}", n) prints it
RECURSIVE ToDecimal(_)
ToDecimal(n) ==
    IF n < 10 THEN SubSeq("0123456789", n + 1, n + 1)
    ELSE ToDecimal(n \div 10) \o SubSeq("0123456789", (n % 10) + 1, (n % 10) + 1)

\* s.chars().filter(|ch| *ch == '\n').count()
CountNewlines(s) == Cardinality({i \in 0..(Len(s) - 1) : CharAt(s, i) = "\n"})

None == <<>>
Some(v) == <<v>>

-----------------------------------------------------------------------------
(* The ignorable-region scanner *)

skip_whitespace(s, index) == ScanWhile(s, index, AsciiWhitespace)

skip_identifier(s, index) == ScanWhile(s, index, AsciiAlphanumeric \cup {"_"})

find_simple_close(s, start, needle) ==
    LET p == FindFrom(s, start, needle)
    IN  IF p = -1 THEN -1 ELSE p + Len(needle)

RECURSIVE find_named_block_end(_, _, _)
find_named_block_end(s, search_start, closing_keyword) ==
    IF search_start >= Len(s) THEN -1
    ELSE LET block_start == FindFrom(s, search_start, "{%")
         IN  IF block_start = -1 THEN -1
             ELSE LET keyword_start == skip_whitespace(s, block_start + 2)
                      after_keyword ==
                          skip_identifier(s, keyword_start + Len(closing_keyword))
                      end_pos == skip_whitespace(s, after_keyword)
                  IN  IF StartsWithAt(s, keyword_start, closing_keyword)
                         /\ StartsWithAt(s, end_pos, "%}")
                      THEN end_pos + 2
                      ELSE find_named_block_end(s, block_start + 2, closing_keyword)

\* Option<(usize, String)>: [some |-> FALSE] is None
NoMatch == [some |-> FALSE, end |-> 0, content |-> ""]

Matched(s, start, end) ==
    IF end = -1 THEN NoMatch
    ELSE [some |-> TRUE, end |-> end, content |-> Slice(s, start, end)]

match_ignorable(s, start) ==
    IF StartsWithAt(s, start, "{%")
    THEN LET after_brace == skip_whitespace(s, start + 2)
         IN  IF StartsWithAt(s, after_brace, "cotton_verbatim")
             THEN Matched(s, start,
                      find_named_block_end(s,
                          skip_identifier(s, after_brace + Len("cotton_verbatim")),
                          "endcotton_verbatim"))
             ELSE IF StartsWithAt(s, after_brace, "comment")
             THEN Matched(s, start,
                      find_named_block_end(s,
                          skip_identifier(s, after_brace + Len("comment")),
                          "endcomment"))
             ELSE Matched(s, start, find_simple_close(s, start, "%}"))
    ELSE IF StartsWithAt(s, start, "{#")
    THEN Matched(s, start, find_simple_close(s, start, "#}"))
    ELSE IF StartsWithAt(s, start, "{{")
    THEN Matched(s, start, find_simple_close(s, start, "}}"))
    ELSE NoMatch

Sentinel == "__COTTON_IGNORE_"

make_placeholder(n) == Sentinel \o ToDecimal(n) \o "__"

Offsets(a, b) == [k \in 1..(b - a) |-> a + k - 1]

\* the least offset >= index at which match_ignorable matches, s.len() if
\* there is none: where the loop of exclude_ignorables stops pushing single
\* characters
next_ignorable(s, index) ==
    LoopExit(index,
             Least({j \in index..(Len(s) - 1) : match_ignorable(s, j).some}),
             Len(s))

\* The loop of exclude_ignorables, one step per ignorable region: the
\* characters before the region are pushed one by one (lib.rs:86-88), then
\* the placeholder (lib.rs:81-85).  `origin` is a history of the loop: for
\* every byte pushed to `output`, the input offset it stands for (the start
\* of the region, for the bytes of a placeholder).
RECURSIVE exclude_loop(_, _, _, _, _)

\* lib.rs:81-85, for the region m found at offset `at`
exclude_region(s, at, m, placeholder, output, ign, origin) ==
    exclude_loop(s, m.end, output \o placeholder,
                 Append(ign, [placeholder |-> placeholder, content |-> m.content]),
                 origin \o [k \in 1..Len(placeholder) |-> at])

\* lib.rs:86-88 for the offsets index..at that match nothing, then the
\* region at `at`, if the text has not ended
exclude_upto(s, at, output, ign, origin) ==
    IF at >= Len(s)
    THEN [output |-> output, ignorables |-> ign, origin |-> origin]
    ELSE exclude_region(s, at, match_ignorable(s, at),
                        make_placeholder(Len(ign)), output, ign, origin)

exclude_copy(s, index, at, output, ign, origin) ==
    exclude_upto(s, at, output \o Slice(s, index, at), ign,
                 origin \o Offsets(index, at))

exclude_loop(s, index, output, ign, origin) ==
    IF index >= Len(s)
    THEN [output |-> output, ignorables |-> ign, origin |-> origin]
    ELSE exclude_copy(s, index, next_ignorable(s, index), output, ign, origin)

exclude_ignorables(s) == exclude_loop(s, 0, "", <<>>, <<>>)

extract_verbatim_inner(content) ==
    LET open_end == FindFrom(content, 0, "%}")
    IN  IF open_end = -1 THEN content
        ELSE LET inner_start == open_end + 2
                 close_start == FindFrom(content, inner_start, "{% endcotton_verbatim")
             IN  IF close_start = -1 THEN content
                 ELSE Slice(content, inner_start, close_start)

restored_content(content) ==
    IF StartsWithAt(trim_start(content), 0, "{% cotton_verbatim")
    THEN extract_verbatim_inner(content)
    ELSE content

RECURSIVE restore_loop(_, _, _)
restore_loop(s, ign, i) ==
    IF i > Len(ign) THEN s
    ELSE restore_loop(
             str_replace(s, ign[i].placeholder, restored_content(ign[i].content)),
             ign, i + 1)

restore_ignorables(s, ign) == restore_loop(s, ign, 1)

-----------------------------------------------------------------------------
(* The shared tag-parsing primitive *)

\* the name scan of parse_c_tag: up to whitespace, '>' or '/'
scan_name(s, idx) == ScanUntil(s, idx, AsciiWhitespace \cup {">", "/"})

\* the quote-aware scan of parse_c_tag for the closing '>', one step per
\* quoted stretch.  Outside quotes (in_quote.is_none()) only '"', '\'' and '>'
\* change anything: '>' ends the scan, a quote character opens a stretch in
\* which only the same quote character changes anything (it closes it).
\* The result is s.len() when the text ends first.
RECURSIVE scan_tag_end(_, _)

\* in_quote == Some(quote) up to `close`, the offset of the next such quote
scan_quote_close(s, close) ==
    IF close >= Len(s) THEN close ELSE scan_tag_end(s, close + 1)

\* in_quote.is_none() up to `at`, the offset of the next '"', '\'' or '>'
scan_quote_open(s, at) ==
    IF at >= Len(s) THEN at
    ELSE IF CharAt(s, at) = ">" THEN at
    ELSE scan_quote_close(s, ScanUntil(s, at + 1, {CharAt(s, at)}))

scan_tag_end(s, pos) == scan_quote_open(s, ScanUntil(s, pos, {"\"", "'", ">"}))

\* while attr_end > attr_start && is_ascii_whitespace(s[attr_end - 1])
RECURSIVE trim_back(_, _, _)
trim_back(s, attr_start, attr_end) ==
    IF attr_end > attr_start /\ IsAsciiWhitespace(CharAt(s, attr_end - 1))
    THEN trim_back(s, attr_start, attr_end - 1)
    ELSE attr_end

\* the key scan of parse_attributes: up to whitespace or '='
scan_key(s, index) == ScanUntil(s, index, AsciiWhitespace \cup {"="})

\* a quoted value: up to the matching quote
scan_quoted(s, index, quote) == ScanUntil(s, index, {quote})

\* an unquoted value: up to whitespace
scan_unquoted(s, index) == ScanUntil(s, index, AsciiWhitespace)

Attribute(key, value) == [key |-> key, value |-> value]

RECURSIVE parse_attributes_loop(_, _, _)
parse_attributes_loop(attrs, index0, attributes) ==
    IF index0 >= Len(attrs) THEN attributes
    ELSE LET key_start == skip_whitespace(attrs, index0)
             key_end == scan_key(attrs, key_start)
             key == Slice(attrs, key_start, key_end)
             after_key == skip_whitespace(attrs, key_end)
         IN  IF key_start >= Len(attrs) \/ key_start = key_end THEN attributes
             ELSE IF after_key < Len(attrs) /\ CharAt(attrs, after_key) = "="
             THEN LET index == skip_whitespace(attrs, after_key + 1)
                  IN  IF index >= Len(attrs)
                      THEN Append(attributes, Attribute(key, None))
                      ELSE IF CharAt(attrs, index) \in {"\"", "'"}
                      THEN LET value_start == index + 1
                               value_end == scan_quoted(attrs, value_start,
                                                        CharAt(attrs, index))
                           IN  parse_attributes_loop(attrs,
                                   IF value_end < Len(attrs) THEN value_end + 1
                                   ELSE value_end,
                                   Append(attributes, Attribute(key,
                                       Some(Slice(attrs, value_start, value_end)))))
                      ELSE LET value_end == scan_unquoted(attrs, index)
                           IN  parse_attributes_loop(attrs, value_end,
                                   Append(attributes, Attribute(key,
                                       Some(Slice(attrs, index, value_end)))))
             ELSE parse_attributes_loop(attrs, after_key,
                      Append(attributes, Attribute(key, None)))

parse_attributes(attrs) == parse_attributes_loop(attrs, 0, <<>>)

\* Result<Option<ParsedTag>, String>
TagNone == [kind |-> "none"]
TagErr(msg) == [kind |-> "err", msg |-> msg]
TagOk(tag) == [kind |-> "tag", tag |-> tag]

ParsedTag(s, start, name_start, name_end, tag_end, is_closing, is_self_closing, attrs_repr) ==
    [original |-> Slice(s, start, tag_end),
     name |-> Slice(s, name_start, name_end),
     attributes |-> IF is_closing THEN <<>> ELSE parse_attributes(attrs_repr),
     attrs_repr |-> attrs_repr,
     is_closing |-> is_closing,
     is_self_closing |-> is_self_closing,
     start |-> start,
     end |-> tag_end]

\* lib.rs:387-400: attr_end1 is attr_end after the first trimming loop
parse_c_tag_attrs(s, start, name_start, name_end, pos, attr_end1) ==
    IF attr_end1 > name_end /\ CharAt(s, attr_end1 - 1) = "/"
    THEN TagOk(ParsedTag(s, start, name_start, name_end, pos + 1, FALSE, TRUE,
                   Slice(s, name_end, trim_back(s, name_end, attr_end1 - 1))))
    ELSE TagOk(ParsedTag(s, start, name_start, name_end, pos + 1, FALSE, FALSE,
                   Slice(s, name_end, attr_end1)))

\* lib.rs:367-390: pos is where the scan for the closing '>' stopped
parse_c_tag_end(s, start, is_closing, name_start, name_end, pos) ==
    IF pos >= Len(s) THEN TagErr("Unterminated c- tag")
    ELSE IF is_closing
    THEN TagOk(ParsedTag(s, start, name_start, name_end, pos + 1, TRUE, FALSE, ""))
    ELSE parse_c_tag_attrs(s, start, name_start, name_end, pos,
                           trim_back(s, name_end, pos))

\* lib.rs:346-365: name_end is idx after the name loop; attr_start is name_end
parse_c_tag_name(s, start, is_closing, name_start, name_end) ==
    IF name_end = name_start THEN TagErr("c- tag missing component name")
    ELSE parse_c_tag_end(s, start, is_closing, name_start, name_end,
                         scan_tag_end(s, name_end))

\* lib.rs:332-344: idx is past the '<' and the '/' of a closing tag
parse_c_tag_prefix(s, start, is_closing, idx) ==
    IF idx + 2 > Len(s) \/ ~StartsWithAt(s, idx, "c-") THEN TagNone
    ELSE parse_c_tag_name(s, start, is_closing, idx + 2, scan_name(s, idx + 2))

parse_c_tag(s, start) ==
    IF ~StartsWithAt(s, start, "<") THEN TagNone
    ELSE IF start + 1 >= Len(s) THEN TagNone
    ELSE IF StartsWithAt(s, start + 1, "/")
    THEN parse_c_tag_prefix(s, start, TRUE, start + 2)
    ELSE parse_c_tag_prefix(s, start, FALSE, start + 1)

build_py_error(message, s, position) ==
    "Error in template at line "
        \o ToDecimal(CountNewlines(Slice(s, 0, position)) + 1)
        \o ": " \o message

-----------------------------------------------------------------------------
(* The variable-declaration extractor *)

\* Result of process_c_vars: Ok((vars_content, output)) or Err(message).
\* `origin` is a history of the loop: for every byte of `output`, its offset
\* in the text process_c_vars was given.
VarsOk(vc, output, origin) ==
    [ok |-> TRUE, vars_content |-> vc, output |-> output, origin |-> origin,
     err |-> "", err_pos |-> -1]

\* err_pos is the position handed to build_py_error, -1 for a message raised
\* without it
VarsErr(msg, position) ==
    [ok |-> FALSE, vars_content |-> None, output |-> "", origin |-> <<>>,
     err |-> msg, err_pos |-> position]

RECURSIVE process_c_vars_loop(_, _, _, _, _)

\* lib.rs:213-249: the arm Ok(Some(tag)) of the match on parse_c_tag
process_c_vars_tag(s, absolute, tag, output, vc, origin) ==
    IF tag.name # "vars"
    THEN process_c_vars_loop(s, tag.end, output \o tag.original, vc,
                             origin \o Offsets(absolute, tag.end))
    ELSE IF tag.is_closing
    THEN VarsErr("Unexpected closing c-vars tag without an opening tag.", -1)
    ELSE IF vc # None
    THEN VarsErr("Multiple c-vars tags found in component template. Only one c-vars tag is allowed per template.", -1)
    ELSE LET header == Some("{% vars " \o trim(tag.attrs_repr) \o " %}")
             close == FindFrom(s, tag.end, "</c-vars>")
         IN  IF tag.is_self_closing
             THEN process_c_vars_loop(s, tag.end, output, header, origin)
             ELSE IF close # -1
             THEN process_c_vars_loop(s, close + Len("</c-vars>"), output,
                                      header, origin)
             ELSE VarsErr("Missing closing </c-vars> tag.", -1)

\* lib.rs:212-255: the match on parse_c_tag(html, absolute)
process_c_vars_match(s, absolute, parsed, output, vc, origin) ==
    IF parsed.kind = "tag"
    THEN process_c_vars_tag(s, absolute, parsed.tag, output, vc, origin)
    ELSE IF parsed.kind = "none"
    THEN process_c_vars_loop(s, absolute + 1,
                             output \o Slice(s, absolute, absolute + 1), vc,
                             Append(origin, absolute))
    ELSE VarsErr(build_py_error(parsed.msg, s, absolute), absolute)

\* lib.rs:205-212: absolute is the offset of the next "<c-vars", -1 for None
process_c_vars_at(s, index, absolute, output, vc, origin) ==
    IF absolute = -1
    THEN VarsOk(vc, output \o Slice(s, index, Len(s)),
                origin \o Offsets(index, Len(s)))
    ELSE process_c_vars_match(s, absolute, parse_c_tag(s, absolute),
                              output \o Slice(s, index, absolute), vc,
                              origin \o Offsets(index, absolute))

process_c_vars_loop(s, index, output, vc, origin) ==
    process_c_vars_at(s, index, FindFrom(s, index, "<c-vars"), output, vc,
                      origin)

process_c_vars(s) == process_c_vars_loop(s, 0, "", None, <<>>)

-----------------------------------------------------------------------------
(* The tag rewriter and dependency collector *)

should_extract(value) ==
    \/ Contains(value, "{{")
    \/ Contains(value, "{%")
    \/ Contains(value, "=")
    \/ Contains(value, Sentinel)

\* processed.join(" ")
RECURSIVE join_space(_)
join_space(items) ==
    IF Len(items) = 0 THEN ""
    ELSE IF Len(items) = 1 THEN items[1]
    ELSE items[1] \o " " \o join_space(Tail(items))

RECURSIVE build_attribute_loop(_, _, _, _)
build_attribute_loop(attributes, i, processed, extracted) ==
    IF i > Len(attributes)
    THEN [attrs_string |-> IF Len(processed) = 0 THEN ""
                           ELSE " " \o join_space(processed),
          extracted |-> extracted]
    ELSE LET attribute == attributes[i]
         IN  IF attribute.value = None
             THEN build_attribute_loop(attributes, i + 1,
                      Append(processed, attribute.key), extracted)
             ELSE IF should_extract(attribute.value[1])
             THEN build_attribute_loop(attributes, i + 1, processed,
                      extracted \o "{% attr " \o attribute.key \o " %}"
                                \o attribute.value[1] \o "{% endattr %}")
             ELSE build_attribute_loop(attributes, i + 1,
                      Append(processed,
                          attribute.key \o "=\"" \o attribute.value[1] \o "\""),
                      extracted)

build_attribute_strings(attributes) ==
    build_attribute_loop(attributes, 1, <<>>, "")

\* Result<String, String>
RwOk(replacement, dependency) ==
    [ok |-> TRUE, replacement |-> replacement, dependency |-> dependency,
     err |-> ""]
RwErr(msg) ==
    [ok |-> FALSE, replacement |-> "", dependency |-> None, err |-> msg]

\* for attribute in &tag.attributes: the first `name` attribute with a value
RECURSIVE first_valued(_, _, _)
first_valued(attributes, key, i) ==
    IF i > Len(attributes) THEN None
    ELSE IF attributes[i].key = key /\ attributes[i].value # None
    THEN attributes[i].value
    ELSE first_valued(attributes, key, i + 1)

process_slot(tag) ==
    IF tag.is_closing THEN RwOk("{% endslot %}", None)
    ELSE LET value == first_valued(tag.attributes, "name", 1)
         IN  IF value # None
             THEN RwOk("{% slot " \o value[1] \o " %}", None)
             ELSE RwErr("c-slot tag must have a name attribute: " \o tag.original)

\* tag.attributes.iter().find(|attribute| attribute.key == "is"): the index
\* of the first attribute with that key, 0 for None
RECURSIVE find_attribute(_, _, _)
find_attribute(attributes, key, i) ==
    IF i > Len(attributes) THEN 0
    ELSE IF attributes[i].key = key THEN i
    ELSE find_attribute(attributes, key, i + 1)

\* component_dependency recording the tag name of a dynamic component too
component_dependency_by_name(tag) ==
    IF tag.name = "component"
    THEN LET i == find_attribute(tag.attributes, "is", 1)
         IN  IF i = 0 \/ tag.attributes[i].value = None
             THEN [err |-> TRUE, dep |-> None]
             ELSE [err |-> FALSE, dep |-> Some(tag.name)]
    ELSE IF tag.name # "slot" /\ tag.name # "vars"
            /\ ~StartsWithAt(tag.name, 0, Sentinel)
    THEN [err |-> FALSE, dep |-> Some(tag.name)]
    ELSE [err |-> FALSE, dep |-> None]

\* the dependency of a non-closing tag (lib.rs:520-545); [err |-> TRUE] is
\* the early return Err
component_dependency(tag) ==
    IF tag.name = "component"
    THEN LET i == find_attribute(tag.attributes, "is", 1)
         IN  IF i = 0 THEN [err |-> TRUE, dep |-> None]
             ELSE IF tag.attributes[i].value = None
             THEN [err |-> TRUE, dep |-> None]
             ELSE IF StartsWithAt(tag.attributes[i].value[1], 0, Sentinel)
             THEN [err |-> FALSE, dep |-> None]
             ELSE [err |-> FALSE, dep |-> tag.attributes[i].value]
    ELSE IF tag.name # "slot" /\ tag.name # "vars"
            /\ ~StartsWithAt(tag.name, 0, Sentinel)
    THEN [err |-> FALSE, dep |-> Some(tag.name)]
    ELSE [err |-> FALSE, dep |-> None]

process_component(tag) ==
    IF tag.is_closing THEN RwOk("{% endc %}", None)
    ELSE LET built == build_attribute_strings(tag.attributes)
             replacement ==
                 "{% c " \o tag.name \o built.attrs_string \o " %}"
                     \o built.extracted
                     \o (IF tag.is_self_closing THEN "{% endc %}" ELSE "")
             d == component_dependency(tag)
         IN  IF d.err
             THEN RwErr("c-component tag must include an \"is\" attribute.")
             ELSE RwOk(replacement, d.dep)

\* push_dependency without the seen_deps test
push_dependency_unchecked(deps, seen_deps, dep) == Append(deps, dep[1])

\* if seen_deps.insert(dep.clone()) { dependencies.push(dep); }
push_dependency(deps, seen_deps, dep) ==
    IF dep[1] \in seen_deps THEN deps ELSE Append(deps, dep[1])

\* Result of collect_replacements.  `tags` is a history of the loop: the
\* slot and component tags it handed to process_slot / process_component.
CollectOk(repl, deps, tags) ==
    [ok |-> TRUE, replacements |-> repl, dependencies |-> deps, tags |-> tags,
     err |-> "", err_pos |-> -1]
CollectErr(msg, position, tags) ==
    [ok |-> FALSE, replacements |-> <<>>, dependencies |-> <<>>, tags |-> tags,
     err |-> msg, err_pos |-> position]

RECURSIVE collect_loop(_, _, _, _, _, _)

\* lib.rs:281-302: rw is the result of process_slot / process_component
collect_rewritten(s, tag, rw, repl, deps, seen_deps, tags) ==
    IF ~rw.ok
    THEN CollectErr(build_py_error(rw.err, s, tag.start), tag.start,
                    Append(tags, tag))
    ELSE collect_loop(s, tag.end,
                      Append(repl, <<tag.original, rw.replacement>>),
                      IF rw.dependency = None THEN deps
                      ELSE push_dependency(deps, seen_deps, rw.dependency),
                      IF rw.dependency = None THEN seen_deps
                      ELSE seen_deps \cup {rw.dependency[1]},
                      Append(tags, tag))

\* lib.rs:271-303: the arm Ok(Some(tag)) of the match on parse_c_tag
collect_tag(s, tag, repl, deps, seen_deps, tags) ==
    IF StartsWithAt(tag.name, 0, Sentinel) \/ tag.name = "vars"
    THEN collect_loop(s, tag.end, repl, deps, seen_deps, tags)
    ELSE collect_rewritten(s, tag,
             IF tag.name = "slot" THEN process_slot(tag)
             ELSE process_component(tag),
             repl, deps, seen_deps, tags)

\* lib.rs:270-310: the match on parse_c_tag(html, absolute)
collect_match(s, absolute, parsed, repl, deps, seen_deps, tags) ==
    IF parsed.kind = "tag"
    THEN collect_tag(s, parsed.tag, repl, deps, seen_deps, tags)
    ELSE IF parsed.kind = "none"
    THEN collect_loop(s, absolute + 1, repl, deps, seen_deps, tags)
    ELSE CollectErr(build_py_error(parsed.msg, s, absolute), absolute, tags)

\* lib.rs:265-270: absolute is the offset of the next '<', -1 for None
collect_at(s, absolute, repl, deps, seen_deps, tags) ==
    IF absolute = -1 THEN CollectOk(repl, deps, tags)
    ELSE collect_match(s, absolute, parse_c_tag(s, absolute), repl, deps,
                       seen_deps, tags)

collect_loop(s, index, repl, deps, seen_deps, tags) ==
    collect_at(s, IF index < Len(s) THEN FindFrom(s, index, "<") ELSE -1,
               repl, deps, seen_deps, tags)

collect_replacements(s) == collect_loop(s, 0, <<>>, <<>>, {}, <<>>)

\* for (original, replacement) in replacements { compiled.replace(..) }
RECURSIVE apply_replacements(_, _, _)
apply_replacements(text, repl, i) ==
    IF i > Len(repl) THEN text
    ELSE apply_replacements(str_replace(text, repl[i][1], repl[i][2]), repl, i + 1)

-----------------------------------------------------------------------------
(* process_internal, one action per statement, and the three entry points *)

\* let (processed_html, ignorables) = exclude_ignorables(html);
ExcludeIgnorables ==
    /\ pc = "exclude"
    /\ LET r == exclude_ignorables(html)
       IN  /\ processed_html' = r.output
           /\ ignorables' = r.ignorables
    /\ pc' = "vars"
    /\ UNCHANGED <<html, vars_content, replacements, dependencies, compiled,
                   error, result>>

\* let (vars_content, processed_html) = process_c_vars(&processed_html)?;
ProcessCVars ==
    /\ pc = "vars"
    /\ LET r == process_c_vars(processed_html)
       IN  IF r.ok
           THEN /\ vars_content' = r.vars_content
                /\ processed_html' = r.output
                /\ pc' = "collect"
                /\ UNCHANGED error
           ELSE /\ error' = Some(r.err)
                /\ pc' = "return"
                /\ UNCHANGED <<vars_content, processed_html>>
    /\ UNCHANGED <<html, ignorables, replacements, dependencies, compiled, result>>

\* let (replacements, dependencies) = collect_replacements(&processed_html)?;
CollectReplacements ==
    /\ pc = "collect"
    /\ LET r == collect_replacements(processed_html)
       IN  IF r.ok
           THEN /\ replacements' = r.replacements
                /\ dependencies' = r.dependencies
                /\ pc' = "apply"
                /\ UNCHANGED error
           ELSE /\ error' = Some(r.err)
                /\ pc' = "return"
                /\ UNCHANGED <<replacements, dependencies>>
    /\ UNCHANGED <<html, processed_html, ignorables, vars_content, compiled, result>>

\* let mut compiled = processed_html.clone(); for ... { compiled.replace }
ApplyReplacements ==
    /\ pc = "apply"
    /\ compiled' = apply_replacements(processed_html, replacements, 1)
    /\ pc' = "wrap"
    /\ UNCHANGED <<html, processed_html, ignorables, vars_content, replacements,
                   dependencies, error, result>>

\* if let Some(vars) = vars_content { format!("{}{}{{% endvars %}}", ..) }
WrapVars ==
    /\ pc = "wrap"
    /\ compiled' = IF vars_content # None
                   THEN vars_content[1] \o compiled \o "{% endvars %}"
                   ELSE compiled
    /\ pc' = "restore"
    /\ UNCHANGED <<html, processed_html, ignorables, vars_content, replacements,
                   dependencies, error, result>>

\* compiled = restore_ignorables(compiled, &ignorables);
RestoreIgnorables ==
    /\ pc = "restore"
    /\ compiled' = restore_ignorables(compiled, ignorables)
    /\ pc' = "return"
    /\ UNCHANGED <<html, processed_html, ignorables, vars_content, replacements,
                   dependencies, error, result>>

\* PyResult<T>: Ok(value) or Err(PyValueError(message))
Ok(entry, value) == [entry |-> entry, ok |-> TRUE, value |-> value, message |-> ""]
Err(entry, message) == [entry |-> entry, ok |-> FALSE, value |-> <<>>, message |-> message]

Return(entry, value) ==
    /\ pc = "return"
    /\ result' = IF error # None THEN Err(entry, error[1]) ELSE Ok(entry, value)
    /\ pc' = "done"
    /\ UNCHANGED <<html, processed_html, ignorables, vars_content, replacements,
                   dependencies, compiled, error>>

process == Return("process", compiled)

process_with_dependencies ==
    Return("process_with_dependencies", <<compiled, dependencies>>)

get_dependencies == Return("get_dependencies", dependencies)

Next ==
    \/ ExcludeIgnorables
    \/ ProcessCVars
    \/ CollectReplacements
    \/ ApplyReplacements
    \/ WrapVars
    \/ RestoreIgnorables
    \/ process
    \/ process_with_dependencies
    \/ get_dependencies

InitOn(inputs) ==
    /\ html \in inputs
    /\ pc = "exclude"
    /\ processed_html = ""
    /\ ignorables = <<>>
    /\ vars_content = None
    /\ replacements = <<>>
    /\ dependencies = <<>>
    /\ compiled = ""
    /\ error = None
    /\ result = <<>>

\* the texts made of at most n of the given fragments
RECURSIVE Texts(_, _)
Texts(fragments, n) ==
    IF n = 0 THEN {""}
    ELSE LET shorter == Texts(fragments, n - 1)
         IN  shorter \cup {t \o f : t \in shorter, f \in fragments}

MaxTags == 3

TagFragments ==
    {"<c-foo>", "<c-bar a=\"1\" />", "</c-foo>", "<c-component is=\"foo\">",
     "<c-component is=\"baz\" b />", "<c-slot name=\"s\">", "<c-{{x}}>",
     "<c-component is=\"{{x}}\">", "<c-vars v />", "<c-component is>",
     "<c-component is is=\"foo\">", "t"}

Init == InitOn(Texts(TagFragments, MaxTags))

Spec == Init /\ [][Next]_vars

\* templates of ignorable regions, verbatim blocks and placeholder-like text
MaxPieces == 3

IgnorableFragments ==
    {"{% cotton_verbatim %}", "{%cotton_verbatim%}", "{% endcotton_verbatim %}",
     "<c-foo>", "{{a}}", "{# b #}", "{% if x %}", "{% comment %}",
     "{% endcomment %}", "__COTTON_IGNORE_", "0__", "t", "\n"}

InitIgnorables == InitOn(Texts(IgnorableFragments, MaxPieces))

SpecIgnorables == InitIgnorables /\ [][Next]_vars

\* templates of declaration tags, failing tags and multi-line regions
VarsFragments ==
    {"<c-vars a>", "<c-vars b />", "</c-vars>", "<c-vars a>\n</c-vars>",
     "\n", "{#\n#}", "<c-slot>", "<c-foo>", "<c-vars c", "<c- >",
     "<c-component>", "t"}

InitVars == InitOn(Texts(VarsFragments, MaxPieces))

SpecVars == InitVars /\ [][Next]_vars

\* templates of tags whose source slices occur inside one another
RewriteFragments ==
    {"<c-x\" %}>", "<c-foo a=\"<c-x\">", ">", "<c-bar>",
     "<c-foo a=\"<c-bar>\">", "</c-bar>", "<c-slot name=\"s\">", "t",
     "<c-bar />", "{{x}}"}

InitRewrite == InitOn(Texts(RewriteFragments, MaxPieces))

SpecRewrite == InitRewrite /\ [][Next]_vars

\* templates whose component names and `is` values are put together from
\* pieces, so that an ignorable region can stand at the start, in the middle
\* or at the end of one
DependencyFragments ==
    {"<c-", "<c-foo", "<c-component is=\"", "<c-component is=\"a", "{{x}}",
     "{# b #}", ">", "\">", " />", "__COTTON_IGNORE_", "t"}

InitDependencies == InitOn(Texts(DependencyFragments, MaxPieces))

SpecDependencies == InitDependencies /\ [][Next]_vars

-----------------------------------------------------------------------------
(* What the claims speak of *)

Done == pc = "done"
Succeeded == Done /\ result.ok
Failed == Done /\ ~result.ok

\* the dependency list an entry point returned
ReturnedDependencies ==
    IF result.entry = "get_dependencies" THEN result.value ELSE result.value[2]

ReturnsDependencies ==
    Succeeded /\ result.entry \in {"get_dependencies", "process_with_dependencies"}

\* the compiled text an entry point returned
ReturnedText ==
    IF result.entry = "process" THEN result.value ELSE result.value[1]

ReturnsText ==
    Succeeded /\ result.entry \in {"process", "process_with_dependencies"}

\* the working text after exclusion, and the extractor's and the rewriter's
\* run on this input
Excluded == exclude_ignorables(html)
Extracted == process_c_vars(Excluded.output)
Collected == collect_replacements(Extracted.output)

\* the tags the rewriter scanned, in scan order, in a run that succeeded
\* (processed_html is then the text collect_replacements was given)
ScannedTags == collect_replacements(processed_html).tags

IsOrdinary(tag) ==
    /\ ~tag.is_closing
    /\ tag.name \notin {"slot", "vars", "component"}
    /\ ~StartsWithAt(tag.name, 0, Sentinel)

IsDynamic(tag) == ~tag.is_closing /\ tag.name = "component"

\* the `is` attribute of a tag: the first attribute with that key
HasIs(tag) == \E i \in 1..Len(tag.attributes) : tag.attributes[i].key = "is"
IsAttribute(tag) ==
    tag.attributes[CHOOSE i \in 1..Len(tag.attributes) :
                       /\ tag.attributes[i].key = "is"
                       /\ \A j \in 1..(i - 1) : tag.attributes[j].key # "is"]

HasIsValue(tag) == HasIs(tag) /\ IsAttribute(tag).value # None

\* the name a tag refers to, if it refers to one
Refers(tag, name) ==
    \/ IsOrdinary(tag) /\ tag.name = name
    \/ /\ IsDynamic(tag) /\ HasIsValue(tag)
       /\ IsAttribute(tag).value[1] = name
       /\ ~StartsWithAt(name, 0, Sentinel)

\* the index in `tags` of the first tag that refers to `name`, 0 if none
FirstReference(tags, name) ==
    LET at == {k \in 1..Len(tags) : Refers(tags[k], name)}
    IN  IF at = {} THEN 0 ELSE CHOOSE k \in at : \A m \in at : k <= m

DedupOrder(tags, deps) ==
    /\ \A i, j \in 1..Len(deps) : i # j => deps[i] # deps[j]
    /\ \A k \in 1..Len(tags) :
           IsOrdinary(tags[k]) => \E i \in 1..Len(deps) : deps[i] = tags[k].name
    /\ \A i \in 1..Len(deps) : FirstReference(tags, deps[i]) # 0
    /\ \A i, j \in 1..Len(deps) :
           i < j => FirstReference(tags, deps[i]) < FirstReference(tags, deps[j])

\* C8: On success the returned dependency list has no duplicate entry, holds
\* the name of every non-closing ordinary component tag the rewriter scanned
\* (not slot, vars, component or placeholder-named), every entry is referred
\* to by a non-closing tag (closing tags add none), and entries are ordered by
\* the position of their first occurrence.
C8_DependencyDedupOrder ==
    ReturnsDependencies => DedupOrder(ScannedTags, ReturnedDependencies)

\* a name scanned twice with another name first scanned in between, and both
\* returned once, in first-seen order
RepeatedName(tags, deps) ==
    \E a, b, c \in 1..Len(tags) :
        /\ a < b /\ b < c
        /\ IsOrdinary(tags[a]) /\ IsOrdinary(tags[b]) /\ IsOrdinary(tags[c])
        /\ tags[a].name = tags[c].name
        /\ tags[a].name # tags[b].name
        /\ deps = <<tags[a].name, tags[b].name>>

C8_Witness == ReturnsDependencies /\ RepeatedName(ScannedTags, ReturnedDependencies)

\* a dynamic component whose `is` attribute has a value that does not start
\* as a placeholder
NamesTarget(tag) ==
    /\ IsDynamic(tag)
    /\ HasIsValue(tag)
    /\ ~StartsWithAt(IsAttribute(tag).value[1], 0, Sentinel)

DynamicRecorded(tags, deps) ==
    /\ \A k \in 1..Len(tags) :
           NamesTarget(tags[k])
               => \E i \in 1..Len(deps) : deps[i] = IsAttribute(tags[k]).value[1]
    /\ (\E i \in 1..Len(deps) : deps[i] = "component")
           => \E k \in 1..Len(tags) : Refers(tags[k], "component")

DynamicUnnamed(tags) ==
    \E k \in 1..Len(tags) : IsDynamic(tags[k]) /\ ~HasIsValue(tags[k])

-----------------------------------------------------------------------------
(* Claims about ignorable regions *)

\* C1: On success the compiled text never contains the placeholder sentinel
\* __COTTON_IGNORE_.
C1_PlaceholderLeakFree == ReturnsText => ~Contains(ReturnedText, Sentinel)

\* a verbatim block as match_ignorable recognizes it: {% whitespace*
\* cotton_verbatim
IsVerbatimBlock(content) ==
    /\ StartsWithAt(content, 0, "{%")
    /\ StartsWithAt(content, skip_whitespace(content, 2), "cotton_verbatim")

\* the offset of the last occurrence of needle in s, -1 if none
LastFind(s, needle) ==
    LET hits == {j \in 0..(Len(s) - Len(needle)) : StartsWithAt(s, j, needle)}
    IN  IF hits = {} THEN -1
        ELSE CHOOSE j \in hits : \A k \in hits : k <= j

\* the body of a verbatim block: what lies between the end of its opening
\* directive and the start of its closing directive (the last {% of the block)
VerbatimBody(content) ==
    LET keyword_end ==
            skip_identifier(content,
                skip_whitespace(content, 2) + Len("cotton_verbatim"))
        open_end == FindFrom(content, keyword_end, "%}")
        close_start == LastFind(content, "{%")
    IN  IF open_end = -1 \/ open_end + 2 > close_start THEN ""
        ELSE Slice(content, open_end + 2, close_start)

\* the text with every verbatim block replaced by its body and every other
\* byte, ignorable or not, kept
RECURSIVE VerbatimStripped(_, _)
VerbatimStripped(s, index) ==
    IF index >= Len(s) THEN ""
    ELSE LET at == next_ignorable(s, index)
             m == match_ignorable(s, at)
         IN  IF at >= Len(s) THEN Slice(s, index, Len(s))
             ELSE Slice(s, index, at)
                      \o (IF IsVerbatimBlock(m.content)
                          THEN VerbatimBody(m.content)
                          ELSE m.content)
                      \o VerbatimStripped(s, m.end)

TagFree(s) == ~Contains(s, "<c-") /\ ~Contains(s, "</c-")

\* C2: On a template with no placeholder-like text and no tag outside its
\* ignorable regions, the compiled text is the template with every verbatim
\* block the scanner recognizes replaced by exactly its body: both verbatim
\* directives are removed, whatever whitespace they hold, and tag-like text
\* inside the body is not rewritten.
C2_VerbatimExclusion ==
    (ReturnsText /\ ~Contains(html, Sentinel) /\ TagFree(processed_html))
        => ReturnedText = VerbatimStripped(html, 0)

NoVerbatimBlock ==
    \A i \in 1..Len(ignorables) : ~IsVerbatimBlock(ignorables[i].content)

\* C3: On a template with no <c- or </c- and no verbatim block, process
\* succeeds and returns the template byte for byte.
C3_RoundTrip ==
    (Done /\ result.entry = "process" /\ TagFree(html) /\ NoVerbatimBlock)
        => (result.ok /\ result.value = html)

-----------------------------------------------------------------------------
(* Claims about the declaration tag and about errors *)

\* the offsets of the text at which a tag named `vars` starts
VarsTagsAt(s, closing) ==
    {p \in 0..(Len(s) - 1) :
        LET parsed == parse_c_tag(s, p)
        IN  /\ parsed.kind = "tag"
            /\ parsed.tag.name = "vars"
            /\ parsed.tag.is_closing = closing}

\* C4: A template with two or more opening or self-closing <c-vars> tags
\* outside ignorable regions, the second starting after the end of the first
\* tag, makes every entry point fail, wherever the second tag is.
C4_SingleVars ==
    Done => LET text == Excluded.output
                opening == VarsTagsAt(text, FALSE)
            IN  (\E p, q \in opening : parse_c_tag(text, p).tag.end <= q)
                    => ~result.ok

\* C5: A template with a </c-vars> closing tag outside ignorable regions that
\* no <c-vars> opening tag precedes makes every entry point fail.
C5_OrphanClosingVars ==
    Done => LET text == Excluded.output
            IN  (\E p \in VarsTagsAt(text, TRUE) :
                     \A q \in VarsTagsAt(text, FALSE) : q > p)
                    => ~result.ok

\* the message is `Error in template at line <n>: ...`
HasLine(message, n) ==
    StartsWithAt(message, 0,
                 "Error in template at line " \o ToDecimal(n) \o ": ")

\* C6: Every failure carries a message of the form
\* `Error in template at line <N>: <description>` with N >= 1.
C6_UniformErrorForm ==
    Failed => \E n \in 1..(Len(html) + 1) : HasLine(result.message, n)

\* the line of the template that holds offset `position`
LineOf(position) == CountNewlines(Slice(html, 0, position)) + 1

\* C7: Whenever a failure is reported with a line number for a tag, the
\* number is 1 plus the number of newlines that precede that tag in the
\* template handed to the entry point.
C7_LineOfOriginalInput ==
    Failed =>
        LET excluded == Excluded
            extracted == process_c_vars(excluded.output)
            collected == collect_replacements(extracted.output)
        IN  IF ~extracted.ok
            THEN extracted.err_pos # -1
                     => HasLine(result.message,
                                LineOf(excluded.origin[extracted.err_pos + 1]))
            ELSE HasLine(result.message,
                     LineOf(excluded.origin[
                                extracted.origin[collected.err_pos + 1] + 1]))

-----------------------------------------------------------------------------
(* Claims about the rewrite *)

\* C10: Once every pairing has been applied, no discovered tag's original
\* source slice remains in the compiled text.
C10_RewriteComplete ==
    pc = "wrap" =>
        \A i \in 1..Len(replacements) : ~Contains(compiled, replacements[i][1])

-----------------------------------------------------------------------------
(* Claims about placeholders in the dependency list *)

\* the name a non-closing component tag would be recorded under: its `is`
\* value for the dynamic component, its tag name otherwise; None for a slot
\* or vars tag, a closing tag, or a dynamic component without an `is` value
ReferredName(tag) ==
    IF tag.is_closing \/ tag.name \in {"slot", "vars"} THEN None
    ELSE IF tag.name = "component"
    THEN (IF HasIsValue(tag) THEN IsAttribute(tag).value ELSE None)
    ELSE Some(tag.name)

\* a scanned tag whose name or `is` value holds the placeholder of an
\* ignorable region is not among the dependencies
PlaceholderNamesUnrecorded(tags, deps) ==
    \A k \in 1..Len(tags) :
        (ReferredName(tags[k]) # None
             /\ Contains(ReferredName(tags[k])[1], Sentinel))
            => \A i \in 1..Len(deps) : deps[i] # ReferredName(tags[k])[1]

\* C11: For an input that does not itself contain "__COTTON_IGNORE_" and on
\* which process_with_dependencies / get_dependencies succeeds, no entry of
\* the returned dependency list contains "__COTTON_IGNORE_", and a component
\* name or `is` value that holds an ignorable region anywhere in it, not only
\* at its start, records no dependency.
C11_DependenciesPlaceholderFree ==
    (ReturnsDependencies /\ ~Contains(html, Sentinel)) =>
        /\ \A i \in 1..Len(ReturnedDependencies) :
               ~Contains(ReturnedDependencies[i], Sentinel)
        /\ PlaceholderNamesUnrecorded(ScannedTags, ReturnedDependencies)

=============================================================================
